---- MODULE Spec2Model ----
(***************************************************************************)
(* The execution core of the fuzzer: State (evaluation pipeline, corpus    *)
(* insertion, initial seeding), Fuzzer (fuzz_one, fuzz_loop) from          *)
(* afl/src/engines/mod.rs, and Testcase (lazy on-disk materialisation)     *)
(* from libafl/src/corpus/testcase.rs.                                     *)
(*                                                                         *)
(* Option<T> is modelled as a set with at most one element: {} is None,    *)
(* {x} is Some(x).  Result<T, E> is a record with a kind ("Ok", "Err",     *)
(* "Panic") and one field per payload type.                                *)
(***************************************************************************)
EXTENDS Integers, Sequences, FiniteSets, TLC

\* ---------------------------------------------------------------- bounds

\* Cap on the executions counter (a usize the model does not let overflow).
MaxExecutions == 4
\* Largest number of entries the corpus is allowed to grow to.
MaxCorpus == 2
\* Largest number of stages configured on the fuzzer.
MaxStages == 2
\* Largest `num` passed to generate_initial_inputs.
MaxNum == 3
\* Latest clock reading, in milliseconds.
MaxTime == 13000
\* Largest number of iterations of fuzz_loop's loop.
MaxIter == 4
\* Largest number of add_metadata calls made on one State.
MaxMetadata == 3

\* ------------------------------------------------------------- variables

VARIABLES
    executions,       \* State.executions
    start_time,       \* State.start_time
    metadatas,        \* State.metadatas
    corpus,           \* the Corpus: a sequence of Testcases, index i at i+1
    stages,           \* Fuzzer.stages
    call,             \* the operation in progress or last completed
    now,              \* the wall clock read by current_milliseconds()
    last,             \* fuzz_loop's local `last`
    iter,             \* the caller's loop counter: test_engine's `i`, or the
                      \* iterations fuzz_loop's `loop` has completed
    loop,             \* fuzz_loop's position and the events it fired
    tc,               \* the Testcase under test (Option)
    fs,               \* the external resources named by filenames
    tcall             \* the last Testcase operation

vars == <<executions, start_time, metadatas, corpus, stages,
          call, now, last, iter, loop, tc, fs, tcall>>

engine_vars == <<executions, start_time, metadatas, corpus,
                 stages, call, now, last, iter, loop>>

testcase_vars == <<tc, fs, tcall>>

\* ------------------------------------------------------------ data types

\* The fuzz inputs (BytesInput): short byte vectors.
Inputs == {<<0>>, <<1>>}

Filenames == {"a", "b"}

None == {}

Some(x) == {x}

is_some(o) == o # {}

is_none(o) == o = {}

\* Option::unwrap on a value known to be Some.
unwrap(o) == CHOOSE x \in o : TRUE

\* Result values.  num/some carry u32, usize and Option<usize> payloads,
\* tcs carries an Option<Testcase>, inp an input reference.
Ok(num, some, tcs) == [kind |-> "Ok", num |-> num, some |-> some, tcs |-> tcs, err |-> ""]

Err(e) == [kind |-> "Err", num |-> 0, some |-> FALSE, tcs |-> {}, err |-> e]

Panic(e) == [kind |-> "Panic", num |-> 0, some |-> FALSE, tcs |-> {}, err |-> e]

NoResult == [kind |-> "Pending", num |-> 0, some |-> FALSE, tcs |-> {}, err |-> ""]

\* Results of the Testcase operations: val carries a returned input,
\* flag a returned bool.
TOk(val, flag) == [kind |-> "Ok", val |-> val, flag |-> flag, err |-> ""]

TErr(e) == [kind |-> "Err", val |-> {}, flag |-> FALSE, err |-> e]

TPanic(e) == [kind |-> "Panic", val |-> {}, flag |-> FALSE, err |-> e]

\* One call made on a collaborator (executor, feedbacks, corpus, stage,
\* event manager), as it appears in the call sequence of an operation.
T(name, inp, ev, n, m) == [call |-> name, inp |-> inp, ev |-> ev, n |-> n, m |-> m]

\* The fitness values a feedback tuple reports (u32; 0 = not interesting).
Fitnesses == {0, 1, 2}

\* --------------------------------------------------------------- Testcase

\* Testcase::new: the input is set, the filename is not, fitness is 0.
Testcase_new(input) ==
    [input |-> Some(input), filename |-> None, fitness |-> 0,
     metadatas |-> {}, exec_time |-> None]

\* Testcase::with_filename
with_filename(input, filename) ==
    [input |-> Some(input), filename |-> Some(filename), fitness |-> 0,
     metadatas |-> {}, exec_time |-> None]

\* Testcase::default: neither the input nor the filename is set.
Testcase_default ==
    [input |-> None, filename |-> None, fitness |-> 0,
     metadatas |-> {}, exec_time |-> None]

\* impl From<I> for Testcase<I>
Testcase_from(input) == Testcase_new(input)

set_fitness(t, fitness) == [t EXCEPT !.fitness = fitness]

set_input(t, input) == [t EXCEPT !.input = Some(input)]

set_filename(t, filename) == [t EXCEPT !.filename = Some(filename)]

fitness(t) == t.fitness

\* -------------------------------------------------- external collaborators

\* FeedbacksTuple::append_metadata_all: every feedback attaches its
\* metadata to the testcase; fb_ok = FALSE is a feedback failing.
append_metadata_all(t, fb_ok) ==
    IF fb_ok
    THEN [result |-> Ok(0, FALSE, Some([t EXCEPT !.metadatas = @ \cup {"feedback"}])),
          trace |-> <<T("append_metadata_all", t.input, "", 0, 0)>>]
    ELSE [result |-> Err("append_metadata_all"),
          trace |-> <<T("append_metadata_all", t.input, "", 0, 0)>>]

\* FeedbacksTuple::discard_metadata_all
discard_metadata_all(input, fb_ok) ==
    [result |-> IF fb_ok THEN Ok(0, FALSE, None) ELSE Err("discard_metadata_all"),
     trace |-> <<T("discard_metadata_all", Some(input), "", 0, 0)>>]

\* Corpus::add: takes the testcase, returns its index (a stable handle).
Corpus_add(c, t) == [corpus |-> Append(c, t), idx |-> Len(c)]

\* Direct lookup of a corpus index.
Corpus_get(c, idx) == c[idx + 1]

\* The outcomes of the executor and the feedbacks during one evaluation:
\* the step that fails ("none" when all succeed) and the fitness scored.
EvalFailures == {"reset_observers", "run_target", "post_exec_observers", "is_interesting_all"}

EvalOutcomes ==
    {[fail |-> f, fit |-> 0] : f \in EvalFailures}
        \cup {[fail |-> "none", fit |-> k] : k \in Fitnesses}

\* ------------------------------------------------------------------ State

\* State::new (start_time is the clock reading at construction).
State_new(ms) == [executions |-> 0, start_time |-> ms, metadatas |-> <<>>]

\* State::set_executions
set_executions(v) == v

\* evaluate_input counting the run only once the whole evaluation succeeded.
evaluate_input_counts_late(ex, input, o) ==
    LET t1 == <<T("reset_observers", None, "", 0, 0)>>
        t2 == t1 \o <<T("run_target", Some(input), "", 0, 0)>>
        t4 == t2 \o <<T("post_exec_observers", None, "", 0, 0)>>
        t5 == t4 \o <<T("is_interesting_all", Some(input), "", 0, 0)>>
    IN  IF o.fail = "reset_observers"
        THEN [executions |-> ex, result |-> Err("reset_observers"), trace |-> t1]
        ELSE IF o.fail = "run_target"
        THEN [executions |-> ex, result |-> Err("run_target"), trace |-> t2]
        ELSE IF o.fail = "post_exec_observers"
        THEN [executions |-> ex, result |-> Err("post_exec_observers"), trace |-> t4]
        ELSE IF o.fail = "is_interesting_all"
        THEN [executions |-> ex, result |-> Err("is_interesting_all"), trace |-> t5]
        ELSE [executions |-> set_executions(ex + 1),
              result |-> Ok(o.fit, TRUE, None),
              trace |-> t5 \o <<T("set_executions", None, "", ex + 1, 0)>>]

\* evaluate_input counting only the runs that turn out interesting.
evaluate_input_counts_interesting(ex, input, o) ==
    LET t1 == <<T("reset_observers", None, "", 0, 0)>>
        t2 == t1 \o <<T("run_target", Some(input), "", 0, 0)>>
        t4 == t2 \o <<T("post_exec_observers", None, "", 0, 0)>>
        t5 == t4 \o <<T("is_interesting_all", Some(input), "", 0, 0)>>
    IN  IF o.fail = "reset_observers"
        THEN [executions |-> ex, result |-> Err("reset_observers"), trace |-> t1]
        ELSE IF o.fail = "run_target"
        THEN [executions |-> ex, result |-> Err("run_target"), trace |-> t2]
        ELSE IF o.fail = "post_exec_observers"
        THEN [executions |-> ex, result |-> Err("post_exec_observers"), trace |-> t4]
        ELSE IF o.fail = "is_interesting_all"
        THEN [executions |-> ex, result |-> Err("is_interesting_all"), trace |-> t5]
        ELSE [executions |-> IF o.fit > 0 THEN set_executions(ex + 1) ELSE ex,
              result |-> Ok(o.fit, TRUE, None), trace |-> t5]

\* evaluate_input counting every run twice.
evaluate_input_counts_twice(ex, input, o) ==
    LET t1 == <<T("reset_observers", None, "", 0, 0)>>
        t2 == t1 \o <<T("run_target", Some(input), "", 0, 0)>>
        sum == ex + 2
        t3 == t2 \o <<T("set_executions", None, "", sum, 0)>>
        t4 == t3 \o <<T("post_exec_observers", None, "", 0, 0)>>
        t5 == t4 \o <<T("is_interesting_all", Some(input), "", 0, 0)>>
    IN  IF o.fail = "reset_observers"
        THEN [executions |-> ex, result |-> Err("reset_observers"), trace |-> t1]
        ELSE IF o.fail = "run_target"
        THEN [executions |-> ex, result |-> Err("run_target"), trace |-> t2]
        ELSE IF o.fail = "post_exec_observers"
        THEN [executions |-> set_executions(sum),
              result |-> Err("post_exec_observers"), trace |-> t4]
        ELSE IF o.fail = "is_interesting_all"
        THEN [executions |-> set_executions(sum),
              result |-> Err("is_interesting_all"), trace |-> t5]
        ELSE [executions |-> set_executions(sum),
              result |-> Ok(o.fit, TRUE, None), trace |-> t5]

\* evaluate_input asking the feedbacks before the observers are finalized.
evaluate_input_scores_first(ex, input, o) ==
    LET t1 == <<T("reset_observers", None, "", 0, 0)>>
        t2 == t1 \o <<T("run_target", Some(input), "", 0, 0)>>
        sum == ex + 1
        t3 == t2 \o <<T("set_executions", None, "", sum, 0)>>
        t4 == t3 \o <<T("is_interesting_all", Some(input), "", 0, 0)>>
        t5 == t4 \o <<T("post_exec_observers", None, "", 0, 0)>>
    IN  IF o.fail = "reset_observers"
        THEN [executions |-> ex, result |-> Err("reset_observers"), trace |-> t1]
        ELSE IF o.fail = "run_target"
        THEN [executions |-> ex, result |-> Err("run_target"), trace |-> t2]
        ELSE IF o.fail = "is_interesting_all"
        THEN [executions |-> set_executions(sum),
              result |-> Err("is_interesting_all"), trace |-> t4]
        ELSE IF o.fail = "post_exec_observers"
        THEN [executions |-> set_executions(sum),
              result |-> Err("post_exec_observers"), trace |-> t5]
        ELSE [executions |-> set_executions(sum),
              result |-> Ok(o.fit, TRUE, None), trace |-> t5]

\* State::evaluate_input
evaluate_input(ex, input, o) ==
    LET t1 == <<T("reset_observers", None, "", 0, 0)>>
        t2 == t1 \o <<T("run_target", Some(input), "", 0, 0)>>
        sum == ex + 1
        t3 == t2 \o <<T("set_executions", None, "", sum, 0)>>
        t4 == t3 \o <<T("post_exec_observers", None, "", 0, 0)>>
        t5 == t4 \o <<T("is_interesting_all", Some(input), "", 0, 0)>>
    IN  IF o.fail = "reset_observers"
        THEN [executions |-> ex, result |-> Err("reset_observers"), trace |-> t1]
        ELSE IF o.fail = "run_target"
        THEN [executions |-> ex, result |-> Err("run_target"), trace |-> t2]
        ELSE IF o.fail = "post_exec_observers"
        THEN [executions |-> set_executions(sum),
              result |-> Err("post_exec_observers"), trace |-> t4]
        ELSE IF o.fail = "is_interesting_all"
        THEN [executions |-> set_executions(sum),
              result |-> Err("is_interesting_all"), trace |-> t5]
        ELSE [executions |-> set_executions(sum),
              result |-> Ok(o.fit, TRUE, None), trace |-> t5]

\* discard_input leaving the feedbacks alone.
discard_input_skipped(input, fb_ok) ==
    [result |-> Ok(0, FALSE, None), trace |-> <<>>]

\* State::discard_input
discard_input(input, fb_ok) == discard_metadata_all(input, fb_ok)

\* State::input_to_testcase
input_to_testcase(input, fit, fb_ok) ==
    LET testcase == set_fitness(Testcase_new(input), fit)
    IN  append_metadata_all(testcase, fb_ok)

\* testcase_if_interesting dropping an uninteresting input without telling
\* the feedbacks.
testcase_if_interesting_no_discard(input, fit, fb_ok) ==
    IF fit > 0
    THEN LET r == input_to_testcase(input, fit, fb_ok)
         IN  IF r.result.kind = "Ok"
             THEN [result |-> Ok(0, TRUE, r.result.tcs), trace |-> r.trace]
             ELSE r
    ELSE [result |-> Ok(0, FALSE, None), trace |-> <<>>]

\* State::testcase_if_interesting
testcase_if_interesting(input, fit, fb_ok) ==
    IF fit > 0
    THEN LET r == input_to_testcase(input, fit, fb_ok)
         IN  IF r.result.kind = "Ok"
             THEN [result |-> Ok(0, TRUE, r.result.tcs), trace |-> r.trace]
             ELSE r
    ELSE LET d == discard_input(input, fb_ok)
         IN  IF d.result.kind = "Ok"
             THEN [result |-> Ok(0, FALSE, None), trace |-> d.trace]
             ELSE d

\* add_if_interesting with the comparison off by one (fitness >= 0).
add_if_interesting_off_by_one(c, input, fit, fb_ok) ==
    IF fit >= 0
    THEN LET r == input_to_testcase(input, fit, fb_ok)
         IN  IF r.result.kind = "Ok"
             THEN LET a == Corpus_add(c, unwrap(r.result.tcs))
                  IN  [corpus |-> a.corpus, result |-> Ok(a.idx, TRUE, None),
                       trace |-> r.trace \o <<T("add", None, "", a.idx, 0)>>]
             ELSE [corpus |-> c, result |-> r.result, trace |-> r.trace]
    ELSE LET d == discard_input(input, fb_ok)
         IN  IF d.result.kind = "Ok"
             THEN [corpus |-> c, result |-> Ok(0, FALSE, None), trace |-> d.trace]
             ELSE [corpus |-> c, result |-> d.result, trace |-> d.trace]

\* State::add_if_interesting
add_if_interesting(c, input, fit, fb_ok) ==
    IF fit > 0
    THEN LET r == input_to_testcase(input, fit, fb_ok)
         IN  IF r.result.kind = "Ok"
             THEN LET a == Corpus_add(c, unwrap(r.result.tcs))
                  IN  [corpus |-> a.corpus, result |-> Ok(a.idx, TRUE, None),
                       trace |-> r.trace \o <<T("add", None, "", a.idx, 0)>>]
             ELSE [corpus |-> c, result |-> r.result, trace |-> r.trace]
    ELSE LET d == discard_input(input, fb_ok)
         IN  IF d.result.kind = "Ok"
             THEN [corpus |-> c, result |-> Ok(0, FALSE, None), trace |-> d.trace]
             ELSE [corpus |-> c, result |-> d.result, trace |-> d.trace]


\* ------------------------------------------------- operations on the State

\* The record of an operation: its name and arguments, the executions
\* counter and the corpus when it was called, the loop position of
\* generate_initial_inputs (i, added) or of fuzz_one (i, idx), what it returned and the calls it
\* made on its collaborators, in order.
Frame(op, inp, fit, num, result, trace) ==
    [op |-> op, inp |-> inp, fit |-> fit, num |-> num, i |-> 0, added |-> 0,
     idx |-> 0, pre_executions |-> executions, pre_corpus |-> corpus,
     result |-> result, trace |-> trace]

\* No operation is in progress (the core is single-threaded).
Idle == call.result.kind # "Pending"

EngineInit ==
    /\ executions = State_new(0).executions
    /\ start_time = State_new(0).start_time
    /\ metadatas = State_new(0).metadatas
    /\ corpus = <<>>
    /\ stages = <<>>
    /\ now = 0
    /\ last = 0
    /\ iter = 0
    /\ loop = [pc |-> "idle", cur |-> 0, prev_last |-> 0, fired |-> FALSE,
               result |-> NoResult, stats |-> <<>>]
    /\ call = [op |-> "new", inp |-> None, fit |-> 0, num |-> 0, i |-> 0,
               added |-> 0, idx |-> 0, pre_executions |-> 0, pre_corpus |-> <<>>,
               result |-> Ok(0, FALSE, None), trace |-> <<>>]

TestcaseIdle ==
    /\ tc = None
    /\ fs = [f \in Filenames |-> None]
    /\ tcall = [op |-> "none", pre |-> None, result |-> TOk(None, FALSE),
                stored |-> None]

Init == EngineInit /\ TestcaseIdle

EvaluateInput ==
    /\ Idle
    /\ executions < MaxExecutions
    /\ \E input \in Inputs, o \in EvalOutcomes :
         LET r == evaluate_input(executions, input, o)
         IN  /\ executions' = r.executions
             /\ call' = Frame("evaluate_input", Some(input), 0, 0, r.result, r.trace)
    /\ UNCHANGED <<start_time, metadatas, corpus, stages, now, last, iter, loop>>
    /\ UNCHANGED testcase_vars

SetExecutions ==
    /\ Idle
    /\ \E v \in 0..MaxExecutions :
         /\ executions' = set_executions(v)
         /\ call' = Frame("set_executions", None, 0, v, Ok(0, FALSE, None), <<>>)
    /\ UNCHANGED <<start_time, metadatas, corpus, stages, now, last, iter, loop>>
    /\ UNCHANGED testcase_vars

TestcaseIfInteresting ==
    /\ Idle
    /\ \E input \in Inputs, fit \in Fitnesses, fb_ok \in BOOLEAN :
         LET r == testcase_if_interesting(input, fit, fb_ok)
         IN  call' = Frame("testcase_if_interesting", Some(input), fit, 0,
                           r.result, r.trace)
    /\ UNCHANGED <<executions, start_time, metadatas, corpus, stages, now, last, iter, loop>>
    /\ UNCHANGED testcase_vars

AddIfInteresting ==
    /\ Idle
    /\ \E input \in Inputs, fit \in Fitnesses, fb_ok \in BOOLEAN :
         LET r == add_if_interesting(corpus, input, fit, fb_ok)
         IN  /\ Len(r.corpus) <= MaxCorpus
             /\ corpus' = r.corpus
             /\ call' = Frame("add_if_interesting", Some(input), fit, 0,
                              r.result, r.trace)
    /\ UNCHANGED <<executions, start_time, metadatas, stages, now, last, iter, loop>>
    /\ UNCHANGED testcase_vars

Next ==
    \/ EvaluateInput
    \/ SetExecutions
    \/ TestcaseIfInteresting
    \/ AddIfInteresting

Spec == Init /\ [][Next]_vars


\* ----------------------------------------------------- claims on the State

\* The operation `name` was called on a collaborator during the last call.
Called(name) == \E k \in 1..Len(call.trace) : call.trace[k].call = name

\* The operation `name` was called with input x during the last call.
CalledWith(name, x) ==
    \E k \in 1..Len(call.trace) :
        call.trace[k].call = name /\ call.trace[k].inp = x

\* The positions of the last call's sequence where `name` was called.
Calls(name) == {k \in 1..Len(call.trace) : call.trace[k].call = name}

\* C1 as stated: after any call to evaluate_input, executions is its value
\* before the call plus exactly 1.
C1_AnyCallIncrements ==
    call.op = "evaluate_input" => executions = call.pre_executions + 1

\* C1, amended: after a call to evaluate_input in which reset_observers and
\* run_target succeeded, executions is its value before the call plus
\* exactly 1, whatever the fitness and whether or not a later step failed;
\* a call that failed in reset_observers or run_target left it unchanged.
C1_IncrementsOncePerRun ==
    call.op = "evaluate_input" =>
        IF call.result.err \in {"reset_observers", "run_target"}
        THEN executions = call.pre_executions
        ELSE executions = call.pre_executions + 1

\* An evaluation that scored fitness 0, on a State that had run before.
C1_Witness ==
    /\ call.op = "evaluate_input"
    /\ call.result.kind = "Ok"
    /\ call.result.num = 0
    /\ call.pre_executions >= 1
    /\ executions = call.pre_executions + 1

\* C3 as stated: testcase_if_interesting(x, 0) never produces a Testcase
\* and always invokes the feedbacks' discard for x; with f > 0 it always
\* produces a Testcase whose fitness is f.
C3_AlwaysProduces ==
    call.op = "testcase_if_interesting" =>
        IF call.fit = 0
        THEN /\ call.result.tcs = None
             /\ CalledWith("discard_metadata_all", call.inp)
        ELSE /\ call.result.kind = "Ok"
             /\ is_some(call.result.tcs)
             /\ \A t \in call.result.tcs : fitness(t) = call.fit

\* C3, amended: testcase_if_interesting(x, 0) never produces a Testcase and
\* always invokes the feedbacks' discard for x; with f > 0 it produces a
\* Testcase whose fitness is f, unless append_metadata_all fails, and then
\* it returns that error and no Testcase.
C3_ProducesUnlessAppendFails ==
    call.op = "testcase_if_interesting" =>
        IF call.fit = 0
        THEN /\ call.result.tcs = None
             /\ CalledWith("discard_metadata_all", call.inp)
             /\ ~Called("append_metadata_all")
        ELSE /\ ~Called("discard_metadata_all")
             /\ IF call.result.err = "append_metadata_all"
                THEN call.result.kind = "Err" /\ call.result.tcs = None
                ELSE /\ call.result.kind = "Ok"
                     /\ is_some(call.result.tcs)
                     /\ \A t \in call.result.tcs :
                            fitness(t) = call.fit /\ t.input = call.inp

\* An input of fitness 2 became a Testcase of fitness 2.
C3_Witness ==
    /\ call.op = "testcase_if_interesting"
    /\ call.fit = 2
    /\ call.result.kind = "Ok"
    /\ \E t \in call.result.tcs : fitness(t) = 2

\* C4 as stated: add_if_interesting with f > 0 grows the corpus by exactly
\* one and returns an index that resolves to a Testcase of fitness f; with
\* f = 0 the corpus is unchanged and no index is returned.
C4_AlwaysAdds ==
    call.op = "add_if_interesting" =>
        IF call.fit > 0
        THEN /\ Len(corpus) = Len(call.pre_corpus) + 1
             /\ call.result.kind = "Ok" /\ call.result.some
             /\ call.result.num \in 0..(Len(corpus) - 1)
             /\ fitness(Corpus_get(corpus, call.result.num)) = call.fit
        ELSE corpus = call.pre_corpus /\ ~call.result.some

\* C4, amended: add_if_interesting with f > 0 grows the corpus by exactly
\* one and returns an index that resolves to a Testcase of fitness f,
\* unless append_metadata_all fails, and then the corpus is unchanged and
\* that error is returned; with f = 0 the corpus is unchanged and no index
\* is returned.
C4_AddsUnlessAppendFails ==
    call.op = "add_if_interesting" =>
        IF call.fit > 0 /\ call.result.err # "append_metadata_all"
        THEN /\ Len(corpus) = Len(call.pre_corpus) + 1
             /\ SubSeq(corpus, 1, Len(call.pre_corpus)) = call.pre_corpus
             /\ call.result.kind = "Ok" /\ call.result.some
             /\ call.result.num \in 0..(Len(corpus) - 1)
             /\ fitness(Corpus_get(corpus, call.result.num)) = call.fit
        ELSE /\ corpus = call.pre_corpus
             /\ ~call.result.some
             /\ call.fit > 0 => call.result.kind = "Err"

\* An input of fitness 2 was added to a corpus that already held an entry.
C4_Witness ==
    /\ call.op = "add_if_interesting"
    /\ call.fit = 2
    /\ call.pre_corpus # <<>>
    /\ call.result.kind = "Ok" /\ call.result.some
    /\ Len(corpus) = Len(call.pre_corpus) + 1
    /\ fitness(Corpus_get(corpus, call.result.num)) = 2

\* The target run of an evaluate_input call completed.
RunCompleted(c) ==
    /\ c.op = "evaluate_input"
    /\ c.result.err \notin {"reset_observers", "run_target"}

\* C13 as stated: across any sequence of State operations, executions
\* never decreases, and it changes only by being incremented by exactly
\* one for each completed target run.
C13_NeverDecreases ==
    [][ /\ executions' >= executions
        /\ executions' # executions =>
              (executions' = executions + 1 /\ RunCompleted(call'))
        /\ (EvaluateInput /\ RunCompleted(call')) => executions' = executions + 1
      ]_vars

\* C13, amended: executions is changed only by set_executions, which
\* assigns the value it is given (a lower one too), and by evaluate_input,
\* which increments it by exactly one for each completed target run; apart
\* from set_executions calls it never decreases.
C13_ChangedByRunOrSetter ==
    [][ /\ call'.op = "set_executions" => executions' = call'.num
        /\ (executions' # executions /\ call'.op # "set_executions") =>
              (executions' = executions + 1 /\ RunCompleted(call'))
        /\ (EvaluateInput /\ RunCompleted(call')) => executions' = executions + 1
      ]_vars

\* A completed run was counted although the observers' post-processing
\* failed, on a State that had counted before.
C13_Witness ==
    /\ call.op = "evaluate_input"
    /\ call.result.err = "post_exec_observers"
    /\ call.pre_executions >= 1
    /\ executions = call.pre_executions + 1

\* C14: in every testcase_if_interesting and add_if_interesting call the
\* feedbacks' discard is invoked (once, for the input) exactly when the
\* fitness is 0, and then no Testcase is produced or added; the permanent
\* attach is invoked (once, for the input) exactly when the fitness is
\* above 0; no input receives both, none receives neither.
C14_DiscardXorAppend ==
    call.op \in {"testcase_if_interesting", "add_if_interesting"} =>
        LET D == Calls("discard_metadata_all")
            A == Calls("append_metadata_all")
        IN  IF call.fit = 0
            THEN /\ Cardinality(D) = 1 /\ A = {}
                 /\ \A k \in D : call.trace[k].inp = call.inp
                 /\ call.result.tcs = None
                 /\ ~(call.op = "add_if_interesting" /\ call.result.some)
                 /\ corpus = call.pre_corpus
            ELSE /\ Cardinality(A) = 1 /\ D = {}
                 /\ \A k \in A : call.trace[k].inp = call.inp

\* An input of fitness 0 was offered to a corpus holding an entry and
\* discarded.
C14_Witness ==
    /\ call.op = "add_if_interesting"
    /\ call.fit = 0
    /\ call.pre_corpus # <<>>
    /\ call.result.kind = "Ok"
    /\ CalledWith("discard_metadata_all", call.inp)
    /\ corpus = call.pre_corpus

\* The steps of a complete evaluate_input of `input`, in order.
EvaluateSteps(input, sum) ==
    << T("reset_observers", None, "", 0, 0),
       T("run_target", Some(input), "", 0, 0),
       T("set_executions", None, "", sum, 0),
       T("post_exec_observers", None, "", 0, 0),
       T("is_interesting_all", Some(input), "", 0, 0) >>

\* C15: evaluate_input performs reset_observers, run_target, the increment
\* of executions, post_exec_observers and is_interesting_all in this
\* order; a failure of reset_observers or run_target returns that error
\* before any later step, with executions unchanged; a failure of
\* post_exec_observers or of the scoring returns that error with
\* executions incremented by one; so the scoring comes after the reset,
\* the run and the post-processing of the same call.
C15_EvaluateOrder ==
    call.op = "evaluate_input" =>
        LET n == Len(call.trace)
            full == EvaluateSteps(unwrap(call.inp), call.pre_executions + 1)
            e == call.result.err
        IN  /\ n \in 1..5
            /\ call.trace = SubSeq(full, 1, n)
            /\ n = CASE e = "reset_observers" -> 1
                      [] e = "run_target" -> 2
                      [] e = "post_exec_observers" -> 4
                      [] OTHER -> 5
            /\ call.result.kind = IF e = "" THEN "Ok" ELSE "Err"
            /\ executions = IF n <= 2 THEN call.pre_executions
                            ELSE call.pre_executions + 1

\* The scoring failed after a run that was counted.
C15_Witness ==
    /\ call.op = "evaluate_input"
    /\ call.result.err = "is_interesting_all"
    /\ Len(call.trace) = 5
    /\ executions = call.pre_executions + 1


\* ------------------------------------------------ generate_initial_inputs

\* EventManager::fire: the event is handed to the manager, which may fail.
\* n and m are the event's payload (Log: added, num; UpdateStats:
\* executions, executions per second).
fire(ev, n, m, ok) ==
    [result |-> IF ok THEN Ok(0, FALSE, None) ELSE Err("fire"),
     trace |-> <<T("fire", None, ev, n, m)>>]

\* EventManager::process, with no inbound events pending: it may fail.
process(ok) ==
    [result |-> IF ok THEN Ok(0, FALSE, None) ELSE Err("process"),
     trace |-> <<T("process", None, "", 0, 0)>>]

\* Generator::generate
generate(ok) ==
    [result |-> IF ok THEN Ok(0, FALSE, None) ELSE Err("generate"),
     trace |-> <<T("generate", None, "", 0, 0)>>]

\* What the collaborators do during one iteration of the seeding loop.
GenOutcomes ==
    [gen_ok : BOOLEAN, input : Inputs, o : EvalOutcomes, fb_ok : BOOLEAN,
     fire_ok : BOOLEAN]

\* An iteration of the seeding loop undoing its own work when it fails.
generate_iteration_rolls_back(ex, c, added, e) ==
    LET g == generate(e.gen_ok)
        v == evaluate_input(ex, e.input, e.o)
        a == add_if_interesting(c, e.input, v.result.num, e.fb_ok)
        f == fire("LoadInitial", 0, 0, e.fire_ok)
        tv == g.trace \o <<T("evaluate_input", None, "", v.result.num, 0)>>
        ta == tv \o <<T("add_if_interesting", None, "", v.result.num, 0)>>
        tf == ta \o f.trace
    IN  IF g.result.kind # "Ok"
        THEN [executions |-> ex, corpus |-> c, added |-> added,
              result |-> g.result, trace |-> g.trace]
        ELSE IF v.result.kind # "Ok"
        THEN [executions |-> ex, corpus |-> c, added |-> added,
              result |-> v.result, trace |-> tv]
        ELSE IF a.result.kind # "Ok"
        THEN [executions |-> ex, corpus |-> c, added |-> added,
              result |-> a.result, trace |-> ta]
        ELSE IF f.result.kind # "Ok"
        THEN [executions |-> ex, corpus |-> c, added |-> added,
              result |-> f.result, trace |-> tf]
        ELSE [executions |-> v.executions, corpus |-> a.corpus,
              added |-> IF ~(~a.result.some) THEN added + 1 ELSE added,
              result |-> NoResult, trace |-> tf]

\* State::generate_initial_inputs, one iteration of `for _ in 0..num`.
generate_iteration(ex, c, added, e) ==
    LET g == generate(e.gen_ok)
        v == evaluate_input(ex, e.input, e.o)
        a == add_if_interesting(c, e.input, v.result.num, e.fb_ok)
        f == fire("LoadInitial", 0, 0, e.fire_ok)
        tv == g.trace \o <<T("evaluate_input", None, "", v.result.num, 0)>>
        ta == tv \o <<T("add_if_interesting", None, "", v.result.num, 0)>>
        tf == ta \o f.trace
    IN  IF g.result.kind # "Ok"
        THEN [executions |-> ex, corpus |-> c, added |-> added,
              result |-> g.result, trace |-> g.trace]
        ELSE IF v.result.kind # "Ok"
        THEN [executions |-> v.executions, corpus |-> c, added |-> added,
              result |-> v.result, trace |-> tv]
        ELSE IF a.result.kind # "Ok"
        THEN [executions |-> v.executions, corpus |-> c, added |-> added,
              result |-> a.result, trace |-> ta]
        ELSE IF f.result.kind # "Ok"
        THEN [executions |-> v.executions, corpus |-> a.corpus,
              added |-> IF ~(~a.result.some) THEN added + 1 ELSE added,
              result |-> f.result, trace |-> tf]
        ELSE [executions |-> v.executions, corpus |-> a.corpus,
              added |-> IF ~(~a.result.some) THEN added + 1 ELSE added,
              result |-> NoResult, trace |-> tf]

\* The end of the seeding with the summary log event left out.
generate_finish_no_log(added, num, fire_ok, process_ok) ==
    LET p == process(process_ok)
    IN  [result |-> IF p.result.kind # "Ok" THEN p.result ELSE Ok(0, FALSE, None),
         trace |-> p.trace]

\* State::generate_initial_inputs, after the loop: the summary log event,
\* then the manager's process.
generate_finish(added, num, fire_ok, process_ok) ==
    LET f == fire("Log", added, num, fire_ok)
        p == process(process_ok)
    IN  IF f.result.kind # "Ok"
        THEN [result |-> f.result, trace |-> f.trace]
        ELSE IF p.result.kind # "Ok"
        THEN [result |-> p.result, trace |-> f.trace \o p.trace]
        ELSE [result |-> Ok(0, FALSE, None), trace |-> f.trace \o p.trace]

\* generate_initial_inputs is entered: `let mut added = 0`.
GenerateStart ==
    /\ Idle
    /\ \E num \in 0..MaxNum :
         /\ Len(corpus) + num <= MaxNum
         /\ executions + num <= MaxExecutions
         /\ call' = Frame("generate_initial_inputs", None, 0, num, NoResult, <<>>)
    /\ UNCHANGED <<executions, start_time, metadatas, corpus, stages, now, last, iter, loop>>
    /\ UNCHANGED testcase_vars

\* One iteration of the loop; a failure returns from the call.
GenerateIteration ==
    /\ call.op = "generate_initial_inputs"
    /\ call.result.kind = "Pending"
    /\ call.i < call.num
    /\ \E e \in GenOutcomes :
         LET r == generate_iteration(executions, corpus, call.added, e)
         IN  /\ executions' = r.executions
             /\ corpus' = r.corpus
             /\ call' = [call EXCEPT !.i = @ + 1, !.added = r.added,
                                     !.result = r.result,
                                     !.trace = @ \o r.trace]
    /\ UNCHANGED <<start_time, metadatas, stages, now, last, iter, loop>>
    /\ UNCHANGED testcase_vars

\* The loop is over: log, process, return.
GenerateFinish ==
    /\ call.op = "generate_initial_inputs"
    /\ call.result.kind = "Pending"
    /\ call.i = call.num
    /\ \E fire_ok \in BOOLEAN, process_ok \in BOOLEAN :
         LET r == generate_finish(call.added, call.num, fire_ok, process_ok)
         IN  call' = [call EXCEPT !.result = r.result, !.trace = @ \o r.trace]
    /\ UNCHANGED <<executions, start_time, metadatas, corpus, stages, now, last, iter, loop>>
    /\ UNCHANGED testcase_vars

NextGen ==
    \/ GenerateStart
    \/ GenerateIteration
    \/ GenerateFinish

SpecGen == Init /\ [][NextGen]_vars


\* ------------------------------------------ claims on the initial seeding

\* The positions of the last call's sequence where event `ev` was fired.
Fired(ev) ==
    {k \in 1..Len(call.trace) :
        call.trace[k].call = "fire" /\ call.trace[k].ev = ev}

\* C6: generate_initial_inputs(num = n) on an empty corpus, every input
\* evaluating to fitness > 0 and no step failing, leaves exactly n corpus
\* entries, fires exactly n load-initial events and exactly one summary log
\* event, every load-initial event before the log event, and calls the
\* manager's process once, after the log event.
C6_SeedingScenario ==
    ( /\ call.op = "generate_initial_inputs"
      /\ call.result.kind = "Ok"
      /\ call.pre_corpus = <<>>
      /\ \A k \in Calls("evaluate_input") : call.trace[k].n > 0 )
    => /\ Len(corpus) = call.num
       /\ Cardinality(Fired("LoadInitial")) = call.num
       /\ Cardinality(Fired("Log")) = 1
       /\ \A j \in Fired("LoadInitial"), k \in Fired("Log") : j < k
       /\ Cardinality(Calls("process")) = 1
       /\ \A k \in Fired("Log"), p \in Calls("process") : k < p

\* A seeding of two or more inputs, all interesting, into an empty corpus.
C6_Witness ==
    /\ call.op = "generate_initial_inputs"
    /\ call.result.kind = "Ok"
    /\ call.pre_corpus = <<>>
    /\ call.num >= 2
    /\ Cardinality(Calls("evaluate_input")) = call.num
    /\ \A k \in Calls("evaluate_input") : call.trace[k].n > 0
    /\ Len(corpus) = call.num

\* generate_initial_inputs returned an error from inside its loop (the
\* summary log event was never fired).
FailedInIteration ==
    /\ call.op = "generate_initial_inputs"
    /\ call.result.kind = "Err"
    /\ Fired("Log") = {}

\* C20: when a step of iteration k of generate_initial_inputs fails
\* (generate, evaluate_input, add_if_interesting or the load-initial
\* fire), the call returns that error at once: the failing step is the
\* last thing done, exactly k-1 load-initial events were fired with
\* success, no summary log event is fired, process is not called, no
\* further input is generated, and the executions counted and the corpus
\* entries added before the failure stay (no rollback).
C20_FailureKeepsProgress ==
    FailedInIteration =>
        LET k == call.i
            e == call.result.err
            n == Len(call.trace)
            kept == {j \in Calls("evaluate_input") : call.trace[j].n > 0}
        IN  /\ k \in 1..call.num
            /\ Cardinality(Calls("generate")) = k
            /\ call.trace[n].call =
                  CASE e = "generate" -> "generate"
                    [] e \in EvalFailures -> "evaluate_input"
                    [] e \in {"append_metadata_all", "discard_metadata_all"} ->
                         "add_if_interesting"
                    [] e = "fire" -> "fire"
            /\ Cardinality(Fired("LoadInitial")) = IF e = "fire" THEN k ELSE k - 1
            /\ Calls("process") = {}
            /\ Cardinality(Calls("evaluate_input")) =
                  IF e = "generate" THEN k - 1 ELSE k
            /\ executions = call.pre_executions + (k - 1) +
                  (IF e \in {"generate", "reset_observers", "run_target"}
                   THEN 0 ELSE 1)
            /\ SubSeq(corpus, 1, Len(call.pre_corpus)) = call.pre_corpus
            /\ Len(corpus) = Len(call.pre_corpus) + Cardinality(kept) -
                  (IF e = "append_metadata_all" THEN 1 ELSE 0)

\* The load-initial fire of the second of three iterations failed after
\* both inputs had been run and added.
C20_Witness ==
    /\ FailedInIteration
    /\ call.result.err = "fire"
    /\ call.i = 2
    /\ call.num = 3
    /\ executions = call.pre_executions + 2
    /\ Len(corpus) = Len(call.pre_corpus) + 2


\* ---------------------------------------------------------------- Fuzzer

\* The kinds of Stage a fuzzer is configured with.
StageKinds == {"mutational", "other"}

\* Corpus::next: fails on an empty corpus, otherwise selects the index
\* `pick` (the selection policy and the random source are external).
Corpus_next(c, pick) ==
    [result |-> IF c = <<>> THEN Err("Empty") ELSE Ok(pick, TRUE, None),
     trace |-> <<T("next", None, "", IF c = <<>> THEN 0 ELSE pick, 0)>>]

\* One evaluation driven by a stage: the input it derived, the outcome of
\* the evaluation, and the outcome of the feedbacks when it is kept or
\* dropped.
EvalSteps == [input : Inputs, o : EvalOutcomes, fb_ok : BOOLEAN]

\* What a stage does in one perform: it fails by itself, or it drives the
\* evaluations listed (none or one), in order.
StageOutcomes ==
    {[fail |-> TRUE, evals |-> <<>>], [fail |-> FALSE, evals |-> <<>>]}
        \cup {[fail |-> FALSE, evals |-> <<s>>] : s \in EvalSteps}

\* The evaluations of a stage, each followed by add_if_interesting; the
\* first failure ends the stage.
RECURSIVE run_evals(_, _, _)
run_evals(ex, c, evals) ==
    IF evals = <<>>
    THEN [executions |-> ex, corpus |-> c, result |-> Ok(0, FALSE, None)]
    ELSE LET s == Head(evals)
             v == evaluate_input(ex, s.input, s.o)
             a == add_if_interesting(c, s.input, v.result.num, s.fb_ok)
         IN  IF v.result.kind # "Ok"
             THEN [executions |-> v.executions, corpus |-> c, result |-> v.result]
             ELSE IF a.result.kind # "Ok"
             THEN [executions |-> v.executions, corpus |-> c, result |-> a.result]
             ELSE run_evals(v.executions, a.corpus, Tail(evals))

\* Stage::perform on corpus index idx.
perform(ex, c, idx, e) ==
    IF e.fail
    THEN [executions |-> ex, corpus |-> c, result |-> Err("perform")]
    ELSE run_evals(ex, c, e.evals)

\* fuzz_one's loop body going on to the next stage after a failure.
fuzz_one_stage_swallows(ex, c, kind, idx, e) ==
    LET r == perform(ex, c, idx, e)
    IN  [executions |-> r.executions, corpus |-> r.corpus, result |-> NoResult,
         trace |-> <<T("perform", None, kind, idx,
                       IF r.result.kind = "Ok" THEN 1 ELSE 0)>>]

\* Fuzzer::fuzz_one, one iteration of `for stage in self.stages_mut()`:
\* the stage is performed on idx and its failure is returned.  The entry of
\* the call sequence names the stage, the index it was given and whether
\* it succeeded (m = 1) or failed (m = 0).
fuzz_one_stage(ex, c, kind, idx, e) ==
    LET r == perform(ex, c, idx, e)
    IN  [executions |-> r.executions, corpus |-> r.corpus,
         result |-> IF r.result.kind = "Ok" THEN NoResult ELSE r.result,
         trace |-> <<T("perform", None, kind, idx,
                       IF r.result.kind = "Ok" THEN 1 ELSE 0)>>]

\* Fuzzer::fuzz_one, after the stages: process, then return the index.
fuzz_one_finish(idx, process_ok) ==
    LET p == process(process_ok)
    IN  [result |-> IF p.result.kind = "Ok" THEN Ok(idx, TRUE, None) ELSE p.result,
         trace |-> p.trace]

\* Fuzzer::add_stage
add_stage(st, stage) == Append(st, stage)

AddStage ==
    /\ Idle
    /\ Len(stages) < MaxStages
    /\ \E kind \in StageKinds : stages' = add_stage(stages, kind)
    /\ call' = Frame("add_stage", None, 0, 0, Ok(0, FALSE, None), <<>>)
    /\ UNCHANGED <<executions, start_time, metadatas, corpus, now, last, iter, loop>>
    /\ UNCHANGED testcase_vars

\* corpus.add(Testcase::new(input)), as a host seeds the corpus by hand.
CorpusAdd ==
    /\ Idle
    /\ Len(corpus) < MaxCorpus
    /\ \E input \in Inputs : corpus' = Corpus_add(corpus, Testcase_new(input)).corpus
    /\ call' = Frame("add", None, 0, 0, Ok(0, FALSE, None), <<>>)
    /\ UNCHANGED <<executions, start_time, metadatas, stages, now, last, iter, loop>>
    /\ UNCHANGED testcase_vars

\* fuzz_one going on with index 0 when the corpus has nothing to select.
FuzzOneEnter_default_index ==
    /\ Idle
    /\ \E pick \in 0..MaxCorpus :
         LET r == Corpus_next(corpus, pick)
         IN  /\ corpus # <<>> => pick < Len(corpus)
             /\ call' = [Frame("fuzz_one", None, 0, 0, NoResult, r.trace)
                           EXCEPT !.idx = r.result.num]
    /\ UNCHANGED <<executions, start_time, metadatas, corpus, stages, now, last>>
    /\ UNCHANGED testcase_vars

\* fuzz_one is entered: `let (_, idx) = corpus.next(rand)?`.
FuzzOneEnter ==
    /\ Idle
    /\ \E pick \in 0..MaxCorpus :
         LET r == Corpus_next(corpus, pick)
         IN  /\ corpus # <<>> => pick < Len(corpus)
             /\ call' = [Frame("fuzz_one", None, 0, 0,
                               IF r.result.kind = "Ok" THEN NoResult ELSE r.result,
                               r.trace)
                           EXCEPT !.idx = r.result.num]
    /\ UNCHANGED <<executions, start_time, metadatas, corpus, stages, now, last>>
    /\ UNCHANGED testcase_vars

\* The next stage is performed; `outcomes` is what the stages may do.
FuzzOnePerform(outcomes) ==
    /\ call.op = "fuzz_one"
    /\ call.result.kind = "Pending"
    /\ call.i < Len(stages)
    /\ \E e \in outcomes :
         LET r == fuzz_one_stage(executions, corpus, stages[call.i + 1], call.idx, e)
         IN  /\ Len(r.corpus) <= MaxCorpus
             /\ executions' = r.executions
             /\ corpus' = r.corpus
             /\ call' = [call EXCEPT !.i = @ + 1, !.result = r.result,
                                     !.trace = @ \o r.trace]
    /\ UNCHANGED <<start_time, metadatas, stages, now, last>>
    /\ UNCHANGED testcase_vars

\* Every stage has succeeded: process, return; `oks` is what the manager's
\* process may answer.
FuzzOneReturn(oks) ==
    /\ call.op = "fuzz_one"
    /\ call.result.kind = "Pending"
    /\ call.i = Len(stages)
    /\ \E process_ok \in oks :
         LET r == fuzz_one_finish(call.idx, process_ok)
         IN  call' = [call EXCEPT !.result = r.result, !.trace = @ \o r.trace]
    /\ UNCHANGED <<executions, start_time, metadatas, corpus, stages, now, last>>
    /\ UNCHANGED testcase_vars

FuzzOneStart == FuzzOneEnter /\ UNCHANGED <<iter, loop>>

FuzzOneStage ==
    /\ FuzzOnePerform(StageOutcomes)
    /\ executions' <= MaxExecutions
    /\ UNCHANGED <<iter, loop>>

FuzzOneFinish == FuzzOneReturn(BOOLEAN) /\ UNCHANGED <<iter, loop>>

NextFuzz ==
    \/ AddStage
    \/ CorpusAdd
    \/ FuzzOneStart
    \/ FuzzOneStage
    \/ FuzzOneFinish

SpecFuzz == Init /\ [][NextFuzz]_vars


\* -------------------------------------------------------- claims on fuzz_one

\* C5: in fuzz_one the stages run strictly in configured order, each
\* against the single index selected at the start; the first stage failure
\* is returned at once and no later stage runs; the manager's process is
\* invoked only after every stage has succeeded, and on success the
\* selected index is returned.
C5_FuzzOneOrder ==
    (call.op = "fuzz_one" /\ call.result.err # "Empty") =>
        LET P == Calls("perform")
            idx == call.trace[1].n
        IN  /\ Calls("next") = {1}
            /\ Cardinality(P) <= Len(stages)
            /\ \A k \in P :
                 /\ call.trace[k].n = idx
                 /\ call.trace[k].ev = stages[Cardinality({j \in P : j <= k})]
                 /\ call.trace[k].m = 0 =>
                      /\ k = Len(call.trace)
                      /\ call.result.kind = "Err"
            /\ Cardinality(Calls("process")) <= 1
            /\ \A p \in Calls("process") :
                 /\ Cardinality(P) = Len(stages)
                 /\ \A k \in P : k < p /\ call.trace[k].m = 1
            /\ call.result.kind = "Ok" =>
                 /\ call.result.num = idx
                 /\ Calls("process") # {}

\* A fuzz_one over two different stages that selected index 1 and
\* returned it.
C5_Witness ==
    /\ call.op = "fuzz_one"
    /\ call.result.kind = "Ok"
    /\ call.result.num = 1
    /\ Len(stages) = 2
    /\ stages[1] # stages[2]
    /\ Cardinality(Calls("perform")) = 2

\* C11: fuzz_one on an empty corpus returns the exhaustion error of the
\* corpus selection (it does not panic and selects no default index); no
\* stage is performed, the manager's process is not called, and executions
\* and the corpus are unchanged.
C11_EmptyCorpusFails ==
    (call.op = "fuzz_one" /\ call.pre_corpus = <<>>) =>
        /\ call.result = Err("Empty")
        /\ Calls("next") = {1}
        /\ Calls("perform") = {}
        /\ Calls("process") = {}
        /\ executions = call.pre_executions
        /\ corpus = call.pre_corpus

\* fuzz_one failed on an empty corpus with two stages configured.
C11_Witness ==
    /\ call.op = "fuzz_one"
    /\ call.pre_corpus = <<>>
    /\ Len(stages) = 2
    /\ call.result.kind = "Err"
    /\ call.result.err = "Empty"


\* ------------------------------------------------------------ test_engine

\* The seed of the reference test: Testcase::new(vec![0; 4]).into().
Seed == Testcase_from(<<0>>)

\* A stage that never fails and drives exactly one evaluate_input per
\* perform: the evaluation and what follows it succeed.
StressOutcomes ==
    {[fail |-> FALSE, evals |-> <<s>>] :
        s \in {x \in EvalSteps : x.o.fail = "none" /\ x.fb_ok}}

\* One seed in the corpus, one stage on the fuzzer, a fresh State.
StressInit ==
    /\ TestcaseIdle
    /\ executions = State_new(0).executions
    /\ start_time = State_new(0).start_time
    /\ metadatas = State_new(0).metadatas
    /\ corpus = Corpus_add(<<>>, Seed).corpus
    /\ stages = add_stage(<<>>, "mutational")
    /\ now = 0
    /\ last = 0
    /\ iter = 0
    /\ loop = [pc |-> "idle", cur |-> 0, prev_last |-> 0, fired |-> FALSE,
               result |-> NoResult, stats |-> <<>>]
    /\ call = [op |-> "new", inp |-> None, fit |-> 0, num |-> 0, i |-> 0,
               added |-> 0, idx |-> 0, pre_executions |-> 0, pre_corpus |-> <<>>,
               result |-> Ok(0, FALSE, None), trace |-> <<>>]

\* `for i in 0..n { fuzzer.fuzz_one(..).expect(..) }`: the next call is
\* made unless the last one failed (expect panics).
StressFuzzOneStart ==
    /\ iter < MaxExecutions
    /\ call.result.kind = "Ok"
    /\ FuzzOneEnter
    /\ UNCHANGED <<iter, loop>>

StressFuzzOneStage == FuzzOnePerform(StressOutcomes) /\ UNCHANGED <<iter, loop>>

\* The logging event manager's process has nothing to drain and succeeds.
StressFuzzOneFinish ==
    /\ FuzzOneReturn({TRUE})
    /\ iter' = iter + 1
    /\ UNCHANGED loop

NextStress ==
    \/ StressFuzzOneStart
    \/ StressFuzzOneStage
    \/ StressFuzzOneFinish

SpecStress == StressInit /\ [][NextStress]_vars

\* C8: n consecutive fuzz_one calls on a corpus of one seed, with a single
\* stage that never fails and drives exactly one evaluate_input per perform,
\* all return without error and leave executions = n.
C8_StressExecutions ==
    Idle =>
        /\ executions = iter
        /\ call.op = "fuzz_one" => call.result.kind = "Ok"

\* Three or more calls have returned.
C8_Witness ==
    /\ Idle
    /\ call.op = "fuzz_one"
    /\ call.result.kind = "Ok"
    /\ iter >= 3
    /\ executions = iter


\* -------------------------------------------------------------- fuzz_loop

\* The heartbeat interval of fuzz_loop, in milliseconds.
Heartbeat == 60 * 100

\* By how much the clock may have advanced from one reading to the next.
TimeSteps == {0, 3000, 6000, 6001}

\* utils::current_milliseconds: a reading of the clock, which has advanced
\* by dt since the last reading.
current_milliseconds(t, dt) == t + dt

\* The modulus of u64 arithmetic, reduced from 2^64 to 2^16 so that the
\* wrapped values stay within the range of the model checker's integers;
\* every clock reading of the model is below it.
U64 == 65536

\* State::executions_over_seconds at clock reading t, as built without
\* overflow checks: the u64 subtraction wraps when start is later than t.
executions_over_seconds(ex, start, t) ==
    LET elapsed == (t - start) % U64
    IN  IF elapsed = 0
        THEN 0
        ELSE IF elapsed \div 1000 = 0
        THEN 0
        ELSE ex \div (elapsed \div 1000)

\* Event::update_stats
update_stats(ex, eps) == [executions |-> ex, execs_over_sec |-> eps]

\* The heartbeat test firing already when the interval is reached.
heartbeat_due_at_interval(cur, lst) == cur - lst >= Heartbeat

\* fuzz_loop: `cur - last > 60 * 100`
heartbeat_due(cur, lst) == cur - lst > Heartbeat

\* fuzz_loop is entered: `let mut last = current_milliseconds()`.
FuzzLoopStart ==
    /\ Idle
    /\ loop.pc = "idle"
    /\ \E dt \in TimeSteps :
         /\ current_milliseconds(now, dt) <= MaxTime
         /\ now' = current_milliseconds(now, dt)
         /\ last' = now'
         /\ loop' = [loop EXCEPT !.pc = "iterate", !.cur = now', !.prev_last = now']
    /\ UNCHANGED <<executions, start_time, metadatas, corpus, stages, call, iter>>
    /\ UNCHANGED testcase_vars

\* `self.fuzz_one(..)?`: fuzz_one is entered; on an empty corpus it fails
\* and the loop returns that error.
FuzzLoopFuzzOneStart ==
    /\ loop.pc = "iterate"
    /\ iter < MaxIter
    /\ FuzzOneEnter
    /\ loop' = IF call'.result.kind = "Err"
               THEN [loop EXCEPT !.pc = "returned", !.result = call'.result]
               ELSE loop
    /\ UNCHANGED iter

\* A stage of the fuzz_one in progress; its failure ends the loop.
FuzzLoopFuzzOneStage ==
    /\ loop.pc = "iterate"
    /\ FuzzOnePerform(StageOutcomes)
    /\ loop' = IF call'.result.kind = "Err"
               THEN [loop EXCEPT !.pc = "returned", !.result = call'.result]
               ELSE loop
    /\ UNCHANGED iter

\* fuzz_loop going on to another fuzz_one after one has failed.
FuzzLoopFuzzOneFinish_retries ==
    /\ loop.pc = "iterate"
    /\ FuzzOneReturn(BOOLEAN)
    /\ loop' = IF call'.result.kind = "Err"
               THEN loop
               ELSE [loop EXCEPT !.pc = "check"]
    /\ iter' = IF call'.result.kind = "Err" THEN iter ELSE iter + 1

\* The fuzz_one in progress returns.
FuzzLoopFuzzOneFinish ==
    /\ loop.pc = "iterate"
    /\ FuzzOneReturn(BOOLEAN)
    /\ loop' = IF call'.result.kind = "Err"
               THEN [loop EXCEPT !.pc = "returned", !.result = call'.result]
               ELSE [loop EXCEPT !.pc = "check"]
    /\ iter' = IF call'.result.kind = "Err" THEN iter ELSE iter + 1

\* After a completed fuzz_one: the clock is read, and when the heartbeat is
\* due `last` is reset and a statistics event is fired (reading the clock
\* once more for the throughput); a failure to fire ends the loop.
FuzzLoopCheck ==
    /\ loop.pc = "check"
    /\ \E dt \in TimeSteps, dt2 \in {0, 3000}, fire_ok \in BOOLEAN :
         LET cur == current_milliseconds(now, dt)
             t2 == current_milliseconds(cur, dt2)
             ev == update_stats(executions,
                                executions_over_seconds(executions, start_time, t2))
             f == fire("UpdateStats", ev.executions, ev.execs_over_sec, fire_ok)
         IN  IF heartbeat_due(cur, last)
             THEN /\ t2 <= MaxTime
                  /\ now' = t2
                  /\ last' = cur
                  /\ loop' = [loop EXCEPT
                                !.pc = IF f.result.kind = "Ok" THEN "iterate" ELSE "returned",
                                !.result = IF f.result.kind = "Ok" THEN @ ELSE f.result,
                                !.cur = cur, !.prev_last = last, !.fired = TRUE,
                                !.stats = Append(@, [at |-> cur, after |-> iter,
                                                     ev |-> ev])]
             ELSE /\ cur <= MaxTime
                  /\ dt2 = 0 /\ fire_ok
                  /\ now' = cur
                  /\ last' = last
                  /\ loop' = [loop EXCEPT !.pc = "iterate", !.cur = cur,
                                          !.prev_last = last, !.fired = FALSE]
    /\ UNCHANGED <<executions, start_time, metadatas, corpus, stages, call, iter>>
    /\ UNCHANGED testcase_vars

\* A host prepares the run: a seed in the corpus or none, a stage on the
\* fuzzer, and a State that is fresh or has counted executions before
\* (set_executions).
LoopInit ==
    /\ TestcaseIdle
    /\ executions \in {State_new(0).executions, set_executions(Heartbeat \div 1000)}
    /\ start_time = State_new(0).start_time
    /\ metadatas = State_new(0).metadatas
    /\ corpus \in {<<>>, Corpus_add(<<>>, Seed).corpus}
    /\ stages = add_stage(<<>>, "mutational")
    /\ now = 0
    /\ last = 0
    /\ iter = 0
    /\ loop = [pc |-> "idle", cur |-> 0, prev_last |-> 0, fired |-> FALSE,
               result |-> NoResult, stats |-> <<>>]
    /\ call = [op |-> "new", inp |-> None, fit |-> 0, num |-> 0, i |-> 0,
               added |-> 0, idx |-> 0, pre_executions |-> 0, pre_corpus |-> <<>>,
               result |-> Ok(0, FALSE, None), trace |-> <<>>]

NextLoop ==
    \/ FuzzLoopStart
    \/ FuzzLoopFuzzOneStart
    \/ FuzzLoopFuzzOneStage
    \/ FuzzLoopFuzzOneFinish
    \/ FuzzLoopCheck

SpecLoop == LoopInit /\ [][NextLoop]_vars


\* ------------------------------------------------------ claims on fuzz_loop

\* fuzz_loop has just tested the heartbeat after a completed fuzz_one.
JustChecked ==
    /\ loop.pc \in {"iterate", "returned"}
    /\ call.op = "fuzz_one"
    /\ call.result.kind = "Ok"

\* C7: after each completed fuzz_one a statistics event carrying the
\* current execution count and throughput is fired exactly when the time
\* since the last report (at first the loop's start) exceeds six seconds,
\* and `last` is then reset to the current time; so two consecutive
\* statistics events are more than six seconds apart and at least one
\* fuzz_one completes between them.
C7_Heartbeat ==
    /\ JustChecked =>
         /\ loop.fired <=> (loop.cur - loop.prev_last > 6 * 1000)
         /\ loop.fired =>
              /\ last = loop.cur
              /\ loop.stats # <<>>
              /\ loop.stats[Len(loop.stats)].at = loop.cur
              /\ loop.stats[Len(loop.stats)].ev.executions = executions
              /\ loop.stats[Len(loop.stats)].ev.execs_over_sec =
                    executions_over_seconds(executions, start_time, now)
         /\ ~loop.fired => last = loop.prev_last
    /\ \A k \in 1..(Len(loop.stats) - 1) :
         /\ loop.stats[k + 1].at - loop.stats[k].at > 6 * 1000
         /\ loop.stats[k + 1].after > loop.stats[k].after

\* Two statistics events have been fired, the first with a throughput
\* above zero.
C7_Witness ==
    /\ JustChecked
    /\ loop.fired
    /\ Len(loop.stats) >= 2
    /\ loop.stats[1].ev.execs_over_sec > 0

\* C16: fuzz_loop never returns Ok; while no fuzz_one and no statistics
\* fire has failed it goes on to the next fuzz_one; it returns exactly at
\* the first failure of a fuzz_one or of a statistics fire, with that
\* error, and after that makes no further step (no retry, no further
\* iteration).
C16_LoopEndsOnlyByError ==
    /\ loop.result.kind \in {"Pending", "Err"}
    /\ loop.pc = "returned" <=> loop.result.kind = "Err"
    /\ loop.pc = "returned" =>
         /\ call.op = "fuzz_one"
         /\ \/ call.result.kind = "Err" /\ loop.result = call.result
            \/ /\ call.result.kind = "Ok"
               /\ loop.fired
               /\ loop.result = Err("fire")
         /\ ~ENABLED NextLoop
    /\ (loop.pc # "idle" /\ call.op = "fuzz_one" /\ call.result.kind = "Err") =>
         /\ loop.pc = "returned"
         /\ loop.result = call.result
    /\ (loop.pc = "iterate" /\ Idle /\ iter < MaxIter) => ENABLED FuzzLoopFuzzOneStart
    /\ (loop.pc = "iterate" /\ ~Idle) =>
         ENABLED (FuzzLoopFuzzOneStage \/ FuzzLoopFuzzOneFinish)
    /\ loop.pc = "check" => ENABLED FuzzLoopCheck

\* The loop returned the error of a statistics fire after two or more
\* completed iterations.
C16_Witness ==
    /\ loop.pc = "returned"
    /\ loop.result = Err("fire")
    /\ call.result.kind = "Ok"
    /\ iter >= 2


\* ------------------------------------------------- State: the throughput

\* The values a host passes to set_start_time, in milliseconds.
StartTimes == {0, 1, 2500, 5000, 12000}

\* State::set_start_time
set_start_time(ms) == ms

\* A call of State::executions_over_seconds at clock reading t.  With
\* overflow checks (a debug build) the subtraction on line 72 panics when
\* start is later than t; without them it wraps.
executions_over_seconds_call(ex, start, t, overflow_checks) ==
    IF t < start /\ overflow_checks
    THEN Panic("attempt to subtract with overflow")
    ELSE Ok(executions_over_seconds(ex, start, t), TRUE, None)

\* State::new: a fresh State whose start_time is the clock reading.
NewState ==
    /\ Idle
    /\ \E dt \in TimeSteps :
         /\ current_milliseconds(now, dt) <= MaxTime
         /\ now' = current_milliseconds(now, dt)
         /\ executions' = State_new(now').executions
         /\ start_time' = State_new(now').start_time
         /\ metadatas' = State_new(now').metadatas
    /\ call' = [Frame("new", None, 0, 0, Ok(0, FALSE, None), <<>>)
                  EXCEPT !.pre_executions = 0]
    /\ UNCHANGED <<corpus, stages, last, iter, loop>>
    /\ UNCHANGED testcase_vars

SetStartTime ==
    /\ Idle
    /\ \E ms \in StartTimes :
         /\ start_time' = set_start_time(ms)
         /\ call' = Frame("set_start_time", None, 0, ms, Ok(0, FALSE, None), <<>>)
    /\ UNCHANGED <<executions, metadatas, corpus, stages, now, last, iter, loop>>
    /\ UNCHANGED testcase_vars

\* executions_over_seconds is called: it reads the clock; the build has
\* overflow checks or has none.
ExecutionsOverSeconds ==
    /\ Idle
    /\ \E dt \in TimeSteps, overflow_checks \in BOOLEAN :
         /\ current_milliseconds(now, dt) <= MaxTime
         /\ now' = current_milliseconds(now, dt)
         /\ call' = Frame("executions_over_seconds", None, 0, 0,
                          executions_over_seconds_call(executions, start_time,
                                                       now', overflow_checks),
                          <<>>)
    /\ UNCHANGED <<executions, start_time, metadatas, corpus, stages, last, iter, loop>>
    /\ UNCHANGED testcase_vars

NextThroughput ==
    \/ NewState
    \/ SetStartTime
    \/ SetExecutions
    \/ EvaluateInput
    \/ ExecutionsOverSeconds

SpecThroughput == Init /\ [][NextThroughput]_vars

\* C12: in every State reachable through new, set_start_time,
\* set_executions and evaluate_input, and for every clock reading,
\* executions_over_seconds does not fail: it returns 0 when fewer than
\* 1000 ms have elapsed since start_time, and otherwise executions divided
\* (integer division) by the elapsed whole seconds.
C12_NeverFails ==
    call.op = "executions_over_seconds" =>
        /\ call.result.kind = "Ok"
        /\ call.result.num =
              IF now - start_time < 1000
              THEN 0
              ELSE executions \div ((now - start_time) \div 1000)


\* ----------------------------------------------- State: metadata registry

\* The names StateMetadata::name() returns.
MetaNames == {"a", "b"}

\* The metadata instances: what name() answers, and the rest of the value.
Metadata == [name : MetaNames, value : {0, 1, 2}]

\* add_metadata inserting only under names the registry does not hold yet.
add_metadata_keeps_first(m, meta) ==
    [k \in (DOMAIN m) \cup {meta.name} |->
        IF k \in DOMAIN m THEN m[k] ELSE meta]

\* State::add_metadata: HashMap::insert under the key meta.name().
add_metadata(m, meta) ==
    [k \in (DOMAIN m) \cup {meta.name} |->
        IF k = meta.name THEN meta ELSE m[k]]

\* The add_metadata calls made on the State so far, in order (the frame
\* of add_metadata keeps them).
MetadataCalls == IF call.op = "add_metadata" THEN call.trace ELSE <<>>

AddMetadata ==
    /\ Idle
    /\ Len(MetadataCalls) < MaxMetadata
    /\ \E meta \in Metadata :
         /\ metadatas' = add_metadata(metadatas, meta)
         /\ call' = Frame("add_metadata", None, 0, 0, Ok(0, FALSE, None),
                          Append(MetadataCalls,
                                 T("add_metadata", None, meta.name, meta.value, 0)))
    /\ UNCHANGED <<executions, start_time, corpus, stages, now, last, iter, loop>>
    /\ UNCHANGED testcase_vars

NextMetadata == AddMetadata

SpecMetadata == Init /\ [][NextMetadata]_vars

\* C18: after any sequence of add_metadata calls the registry holds one
\* entry for each distinct name among the calls and no other, and the
\* entry of a name is the metadata of the last call made with that name
\* (so a call leaves the entries of the other names as they were).
C18_Upsert ==
    LET h == MetadataCalls
        last_with(n) == CHOOSE k \in 1..Len(h) :
                            /\ h[k].ev = n
                            /\ \A j \in (k + 1)..Len(h) : h[j].ev # n
    IN  /\ DOMAIN metadatas = {h[k].ev : k \in 1..Len(h)}
        /\ \A n \in DOMAIN metadatas :
             metadatas[n] = [name |-> n, value |-> h[last_with(n)].n]

\* Name "a" was added, then name "b", then name "a" again with another
\* value.
C18_Witness ==
    /\ Len(MetadataCalls) = 3
    /\ MetadataCalls[1].ev = "a"
    /\ MetadataCalls[2].ev = "b"
    /\ MetadataCalls[3].ev = "a"
    /\ MetadataCalls[1].n # MetadataCalls[3].n
    /\ DOMAIN metadatas = {"a", "b"}
    /\ metadatas["a"].value = MetadataCalls[3].n


\* ----------------------------------------------- Testcase: load and store

\* The on-disk form of an input: its bytes behind their length.
serialize(input) == <<Len(input)>> \o input

\* Reading the on-disk form back; bytes that are not one fail.
deserialize(bytes) ==
    IF bytes # <<>> /\ bytes[1] = Len(bytes) - 1
    THEN TOk(Some(Tail(bytes)), FALSE)
    ELSE TErr("deserialize")

\* What a resource may hold: nothing (it does not exist), the on-disk form
\* of an input, or bytes that are none.
FileContents == {None} \cup {Some(serialize(i)) : i \in Inputs} \cup {Some(<<7>>)}

\* Input::to_file: writes the input to the resource; io_ok = FALSE is an
\* I/O error.
to_file(files, fname, input, io_ok) ==
    IF io_ok
    THEN [fs |-> [files EXCEPT ![fname] = Some(serialize(input))],
          result |-> TOk(None, FALSE)]
    ELSE [fs |-> files, result |-> TErr("io")]

\* Input::from_file: reads the input from the resource.
from_file(files, fname, io_ok) ==
    IF ~io_ok \/ is_none(files[fname])
    THEN TErr("io")
    ELSE deserialize(unwrap(files[fname]))

\* load_input reading the resource again whenever a filename is set.
load_input_always_reads(t, files, io_ok) ==
    IF is_none(t.filename)
    THEN IF is_none(t.input)
         THEN [tc |-> t, result |-> TPanic("called Option::unwrap() on a None value")]
         ELSE [tc |-> t, result |-> TOk(t.input, FALSE)]
    ELSE LET r == from_file(files, unwrap(t.filename), io_ok)
         IN  IF r.kind # "Ok"
             THEN [tc |-> t, result |-> r]
             ELSE [tc |-> [t EXCEPT !.input = r.val],
                   result |-> TOk(r.val, FALSE)]

\* load_input returning the input it read without keeping it.
load_input_keeps_absent(t, files, io_ok) ==
    IF is_none(t.input)
    THEN IF is_none(t.filename)
         THEN [tc |-> t, result |-> TPanic("called Option::unwrap() on a None value")]
         ELSE LET r == from_file(files, unwrap(t.filename), io_ok)
              IN  IF r.kind # "Ok"
                  THEN [tc |-> t, result |-> r]
                  ELSE [tc |-> t, result |-> TOk(r.val, FALSE)]
    ELSE [tc |-> t, result |-> TOk(t.input, FALSE)]

\* Testcase::load_input
load_input(t, files, io_ok) ==
    IF is_none(t.input)
    THEN IF is_none(t.filename)
         THEN [tc |-> t, result |-> TPanic("called Option::unwrap() on a None value")]
         ELSE LET r == from_file(files, unwrap(t.filename), io_ok)
              IN  IF r.kind # "Ok"
                  THEN [tc |-> t, result |-> r]
                  ELSE [tc |-> [t EXCEPT !.input = r.val],
                        result |-> TOk(r.val, FALSE)]
    ELSE [tc |-> t, result |-> TOk(t.input, FALSE)]

\* store_input creating an empty resource when there is no input to write.
store_input_creates_empty(t, files, io_ok) ==
    IF is_none(t.filename)
    THEN [fs |-> files, result |-> TOk(None, FALSE)]
    ELSE IF is_none(t.input)
    THEN [fs |-> [files EXCEPT ![unwrap(t.filename)] = Some(serialize(<<>>))],
          result |-> TOk(None, FALSE)]
    ELSE LET w == to_file(files, unwrap(t.filename), unwrap(t.input), io_ok)
         IN  IF w.result.kind # "Ok"
             THEN [fs |-> w.fs, result |-> w.result]
             ELSE [fs |-> w.fs, result |-> TOk(None, TRUE)]

\* Testcase::store_input
store_input(t, files, io_ok) ==
    IF is_none(t.filename)
    THEN [fs |-> files, result |-> TOk(None, FALSE)]
    ELSE IF is_none(t.input)
    THEN [fs |-> files, result |-> TOk(None, FALSE)]
    ELSE LET w == to_file(files, unwrap(t.filename), unwrap(t.input), io_ok)
         IN  IF w.result.kind # "Ok"
             THEN [fs |-> w.fs, result |-> w.result]
             ELSE [fs |-> w.fs, result |-> TOk(None, TRUE)]

\* Testcase::input_mut: the caller assigns through the reference.
input_mut(t, v) == [t EXCEPT !.input = v]

\* Testcase::filename_mut: the caller assigns through the reference.
filename_mut(t, v) == [t EXCEPT !.filename = v]

\* The record of a Testcase operation: the Testcase before it, what it
\* returned, and what store_input last wrote (file and input) as long as
\* nobody else has changed that file.
TFrame(op, result, stored) ==
    [op |-> op, pre |-> tc, result |-> result, stored |-> stored]

\* The constructors: new, with_filename, default, From.
Construct ==
    /\ \E i \in Inputs, f \in Filenames, how \in {"new", "with_filename", "default", "from"} :
         /\ tc' = Some(CASE how = "new" -> Testcase_new(i)
                         [] how = "with_filename" -> with_filename(i, f)
                         [] how = "default" -> Testcase_default
                         [] how = "from" -> Testcase_from(i))
         /\ tcall' = TFrame(how, TOk(None, FALSE), tcall.stored)
    /\ UNCHANGED fs
    /\ UNCHANGED engine_vars

SetInput ==
    /\ is_some(tc)
    /\ \E i \in Inputs : tc' = Some(set_input(unwrap(tc), i))
    /\ tcall' = TFrame("set_input", TOk(None, FALSE), tcall.stored)
    /\ UNCHANGED fs
    /\ UNCHANGED engine_vars

SetFilename ==
    /\ is_some(tc)
    /\ \E f \in Filenames : tc' = Some(set_filename(unwrap(tc), f))
    /\ tcall' = TFrame("set_filename", TOk(None, FALSE), tcall.stored)
    /\ UNCHANGED fs
    /\ UNCHANGED engine_vars

SetFitness ==
    /\ is_some(tc)
    /\ \E v \in Fitnesses : tc' = Some(set_fitness(unwrap(tc), v))
    /\ tcall' = TFrame("set_fitness", TOk(None, FALSE), tcall.stored)
    /\ UNCHANGED fs
    /\ UNCHANGED engine_vars

InputMut ==
    /\ is_some(tc)
    /\ \E v \in {None} \cup {Some(i) : i \in Inputs} :
         tc' = Some(input_mut(unwrap(tc), v))
    /\ tcall' = TFrame("input_mut", TOk(None, FALSE), tcall.stored)
    /\ UNCHANGED fs
    /\ UNCHANGED engine_vars

FilenameMut ==
    /\ is_some(tc)
    /\ \E v \in {None} \cup {Some(f) : f \in Filenames} :
         tc' = Some(filename_mut(unwrap(tc), v))
    /\ tcall' = TFrame("filename_mut", TOk(None, FALSE), tcall.stored)
    /\ UNCHANGED fs
    /\ UNCHANGED engine_vars

LoadInput ==
    /\ is_some(tc)
    /\ \E io_ok \in BOOLEAN :
         LET r == load_input(unwrap(tc), fs, io_ok)
         IN  /\ tc' = Some(r.tc)
             /\ tcall' = TFrame("load_input", r.result, tcall.stored)
    /\ UNCHANGED fs
    /\ UNCHANGED engine_vars

StoreInput ==
    /\ is_some(tc)
    /\ \E io_ok \in BOOLEAN :
         LET r == store_input(unwrap(tc), fs, io_ok)
         IN  /\ fs' = r.fs
             /\ tcall' = TFrame("store_input", r.result,
                                IF r.result.kind = "Ok" /\ r.result.flag
                                THEN Some([file |-> unwrap(unwrap(tc).filename),
                                           input |-> unwrap(unwrap(tc).input)])
                                ELSE tcall.stored)
    /\ UNCHANGED tc
    /\ UNCHANGED engine_vars

\* Someone else deletes or rewrites a resource.
FsChange ==
    /\ \E f \in Filenames, c \in FileContents :
         /\ fs[f] # c
         /\ fs' = [fs EXCEPT ![f] = c]
         /\ tcall' = [tcall EXCEPT !.stored =
                         IF \E w \in tcall.stored : w.file = f THEN None ELSE @]
    /\ UNCHANGED tc
    /\ UNCHANGED engine_vars

NextTestcase ==
    \/ Construct
    \/ SetInput
    \/ SetFilename
    \/ SetFitness
    \/ InputMut
    \/ FilenameMut
    \/ LoadInput
    \/ StoreInput
    \/ FsChange

SpecTestcase == Init /\ [][NextTestcase]_vars


\* ------------------------------------------------- claims on the Testcase

\* C2: in every state reachable after construction through the public
\* operations of a Testcase, at least one of input and filename is set.
C2_InputOrFilename ==
    \A t \in tc : is_some(t.input) \/ is_some(t.filename)

\* The last operation was load_input on a Testcase whose input was absent
\* and whose filename names the file store_input last wrote, unchanged
\* since.
LoadsWhatWasStored ==
    /\ tcall.op = "load_input"
    /\ \E t \in tcall.pre, w \in tcall.stored :
         is_none(t.input) /\ t.filename = Some(w.file)

C10_LoadAbsentReturnsError ==
    ( /\ tcall.op = "load_input"
      /\ \A t \in tcall.pre : is_none(t.input) /\ is_none(t.filename) )
    => /\ tcall.result.kind = "Err"
       /\ tc = tcall.pre

\* C17: store_input returns "not stored" without error and without writing
\* to any resource when the Testcase has no filename, and also when it has
\* a filename but no in-memory input; it returns "stored" only when both
\* are present and the named resource now holds the serialized input; in
\* every case the Testcase (input, filename, fitness, metadata) is left
\* unchanged.
C17_StoreInput ==
    [][ StoreInput =>
          \A t \in tc :
            /\ tc' = tc
            /\ tcall'.op = "store_input"
            /\ (is_none(t.filename) \/ is_none(t.input)) =>
                  (tcall'.result = TOk(None, FALSE) /\ fs' = fs)
            /\ tcall'.result.flag =>
                  /\ tcall'.result.kind = "Ok"
                  /\ is_some(t.filename) /\ is_some(t.input)
                  /\ fs' = [fs EXCEPT ![unwrap(t.filename)] =
                                         Some(serialize(unwrap(t.input)))]
            /\ (is_some(t.filename) /\ is_some(t.input) /\ ~tcall'.result.flag) =>
                  tcall'.result.kind = "Err"
      ]_vars

\* store_input answered "not stored" for a Testcase of fitness 2 that has
\* a filename but no input, and the resource does not exist.
C17_Witness ==
    /\ tcall.op = "store_input"
    /\ tcall.result = TOk(None, FALSE)
    /\ tc = tcall.pre
    /\ \E t \in tc :
         /\ is_some(t.filename) /\ is_none(t.input)
         /\ t.fitness = 2
         /\ fs[unwrap(t.filename)] = None

\* C19: load_input on a Testcase whose input is present does not depend on
\* the resource (whatever it holds, readable or not), does not fail,
\* returns that input and leaves the Testcase unchanged; so it is after a
\* successful load, even if the resource has changed or vanished since.
C19_LoadIdempotent ==
    [][ (LoadInput /\ \E t \in tc : is_some(t.input)) =>
          \A t \in tc :
            /\ tcall'.result = TOk(t.input, FALSE)
            /\ tc' = tc
      ]_vars

\* load_input returned the input <<1>> of a Testcase whose resource holds
\* something else by now.
C19_Witness ==
    /\ tcall.op = "load_input"
    /\ tcall.result = TOk(Some(<<1>>), FALSE)
    /\ tc = tcall.pre
    /\ \E t \in tc :
         /\ t.input = Some(<<1>>)
         /\ is_some(t.filename)
         /\ fs[unwrap(t.filename)] = Some(serialize(<<0>>))


====
